---- MODULE Spec2Model ----
(***************************************************************************)
(* CaptchaModule (src/models/captcha_module.py): the lifecycle hooks of    *)
(* the captcha training module as a state machine.  The state is the       *)
(* module instance (hyper-parameters, metric accumulators, the two test    *)
(* counters) together with what the most recent hook call did to its       *)
(* collaborators (the logging sink, the logger's experiment, the           *)
(* visualizer) and what it returned or raised.                             *)
(*                                                                         *)
(* Scalars are integers (loss values and weights on a fixed-point scale);  *)
(* the one true division of the module, in on_test_epoch_end, is carried   *)
(* out over exact reduced fractions.                                       *)
(***************************************************************************)
EXTENDS Integers, Sequences, FiniteSets, TLC

\* ---------------------------------------------------------------- bounds
MaxLossFns == 3     \* longest configured loss list (richly drawn lists)
MaxSteps == 2       \* state-growing hook calls allowed in one behaviour

\* ------------------------------------------------------ program constants
VizEvery == 100     \* batch_idx % 100 == 0
Percent == 100      \* correct_count / total_count * 100
Frequency == 1      \* "frequency": 1

\* ------------------------------------------------------------ input sets
None == "None"

Tags == {"ce", "total_loss", "Accuracy"}
Weights == {1, 2}
Bases == {1, 2}

\* a loss function: its tag, its weight, and the parameter of its formula
LossFnSet == [tag : Tags, weight : Weights, base : Bases]

\* a batch is the pair (images, labels_encoded)
Batches == {<<1, 2>>, <<2, 1>>}

BatchIdxs == {0, 99, 100, 200}
GlobalSteps == {0, 7}

\* what the visualizer collaborator may answer
Accuracies == {0, 1}
CountPairs == {<<0, 0>>, <<1, 2>>, <<3, 4>>}

VARIABLES
    loss_fns, scheduler, compile,   \* self.loss_fns, self.hparams.scheduler/.compile
    net,                            \* self.net
    train_acc, val_acc, test_acc,   \* Accuracy metric objects
    train_loss, val_loss, test_loss,\* MeanMetric objects
    val_acc_best,                   \* MaxMetric object
    correct_count, total_count,     \* the stored test counters
    hook,                           \* the hook called last
    call,                           \* its arguments
    losses,                         \* the loss record its model_step built
    logs,                           \* its self.log calls, in order
    experiment,                     \* its self.logger.experiment calls, in order
    vizCalls,                       \* its DataVisualizer calls, in order
    vizPair,                        \* what get_accuracy answered last
    ret,                            \* what it returned
    raised,                         \* the exception it raised, or None
    steps,                          \* state-growing hook calls so far
    nextId                          \* objects built by the factories so far

hparams == <<loss_fns, scheduler, compile>>
metrics == <<train_acc, val_acc, test_acc, train_loss, val_loss, test_loss, val_acc_best>>
counters == <<correct_count, total_count>>
effects == <<hook, call, losses, logs, experiment, vizCalls, ret, raised>>
vars == <<hparams, net, metrics, counters, effects, vizPair, steps, nextId>>

\* ------------------------------------------------------------------ dict
\* A Python dict keeps insertion order: a sequence of <<key, value>> pairs
\* with pairwise distinct keys.
DictKeys(d) == {d[i][1] : i \in DOMAIN d}

DictHas(d, k) == \E i \in DOMAIN d : d[i][1] = k

DictGet(d, k) == LET i == CHOOSE j \in DOMAIN d : d[j][1] = k IN d[i][2]

\* d[k] = v : replaces the value in place, or appends a new key
DictSet(d, k, v) ==
    IF DictHas(d, k)
    THEN [i \in DOMAIN d |-> IF d[i][1] = k THEN <<k, v>> ELSE d[i]]
    ELSE Append(d, <<k, v>>)

\* --------------------------------------------------------- collaborators
\* self.forward(images) = self.net(images)
forward(n, images) == [of |-> "prediction", images |-> images]

\* loss_fn(prediction=..., images=..., labels_encoded=...)
LossCall(fn, prediction, images, labels_encoded) ==
    fn.base * prediction.images + images + labels_encoded

\* MeanMetric: running weighted sum and weight
EmptyMean == [mean_value |-> 0, weight |-> 0]

MeanUpdate(m, value) == [mean_value |-> m.mean_value + value, weight |-> m.weight + 1]

\* Accuracy / MaxMetric objects are only constructed and reset
EmptyMetric == "empty"

\* self.train_loss(losses.get("total_loss")), and likewise val_loss, test_loss
FeedLossTwice(m, d) == MeanUpdate(MeanUpdate(m, DictGet(d, "total_loss")), DictGet(d, "total_loss"))

FeedLoss(m, d) == MeanUpdate(m, DictGet(d, "total_loss"))

\* ------------------------------------------------------------ model_step
\* losses[loss_fn.tag] = loss_fn(...)
StoreLossWeighted(d, fn, value) == DictSet(d, fn.tag, value * fn.weight)

StoreLoss(d, fn, value) == DictSet(d, fn.tag, value)

\* losses["total_loss"] += losses[loss_fn.tag] * loss_fn.weight
AddToTotal(d, fn) ==
    DictSet(d, "total_loss", DictGet(d, "total_loss") + DictGet(d, fn.tag) * fn.weight)

RECURSIVE LossLoop(_, _, _, _, _)
LossLoop(d, fns, prediction, images, labels_encoded) ==
    IF fns = << >>
    THEN d
    ELSE LET fn == Head(fns)
             d1 == StoreLoss(d, fn, LossCall(fn, prediction, images, labels_encoded))
             d2 == AddToTotal(d1, fn)
         IN  LossLoop(d2, Tail(fns), prediction, images, labels_encoded)

model_step(n, fns, batch) ==
    LET images == batch[1]
        labels_encoded == batch[2]
        prediction == forward(n, images)
        d == LossLoop(<< <<"total_loss", 0>> >>, fns, prediction, images, labels_encoded)
    IN  <<d, prediction, images, labels_encoded>>

\* ------------------------------------------------------------- self.log
\* self.log(f"{stage}/{loss_name}", loss_value, on_step=False, on_epoch=True, prog_bar=True)
LogEntry(name, value, on_step, on_epoch, prog_bar) ==
    [name |-> name, value |-> value, on_step |-> on_step, on_epoch |-> on_epoch,
     prog_bar |-> prog_bar]

MetricNameUnderscore(stage, loss_name) == stage \o "_" \o loss_name

MetricName(stage, loss_name) == stage \o "/" \o loss_name

\* for loss_name, loss_value in losses.items(): self.log(...)
LogLosses(stage, d) ==
    [i \in DOMAIN d |-> LogEntry(MetricName(stage, d[i][1]), d[i][2], "False", "True", "True")]

\* if batch_idx % 100 == 0
ShouldVisualizeSkippingFirst(batch_idx) == batch_idx % VizEvery = 0 /\ batch_idx # 0

ShouldVisualize(batch_idx) == batch_idx % VizEvery = 0

\* ------------------------------------------------------- exact fractions
RECURSIVE GCD(_, _)
GCD(a, b) == IF b = 0 THEN a ELSE GCD(b, a % b)

\* a / b for b # 0, as the reduced fraction <<numerator, denominator>>
TrueDiv(a, b) == LET g == GCD(a, b) IN <<a \div g, b \div g>>

FracTimes(f, k) == TrueDiv(f[1] * k, f[2])

\* accuracy = self.correct_count / self.total_count * 100
TestAccuracy(correct, total) == FracTimes(TrueDiv(correct, total), Percent)

\* self.correct_count, self.total_count = ...get_accuracy(images, labels_encoded)
StoreCountsSummed(old, pair) == <<old[1] + pair[1], old[2] + pair[2]>>

StoreCounts(old, pair) == pair

\* torch.compile(self.net): one more wrapper around the network
torch_compile(n) == n + 1

\* ------------------------------------------------------------------ hooks
NoEffects(name, args) ==
    /\ hook' = name
    /\ call' = args
    /\ losses' = << >>
    /\ logs' = << >>
    /\ experiment' = << >>
    /\ vizCalls' = << >>
    /\ ret' = None
    /\ raised' = None

on_train_start_keeping_val_loss ==
    /\ val_acc' = EmptyMetric
    /\ val_acc_best' = EmptyMetric
    /\ NoEffects("on_train_start", << >>)
    /\ UNCHANGED <<hparams, net, train_acc, test_acc, train_loss, val_loss, test_loss,
                   counters, vizPair, steps, nextId>>

on_train_start ==
    /\ val_loss' = EmptyMean
    /\ val_acc' = EmptyMetric
    /\ val_acc_best' = EmptyMetric
    /\ NoEffects("on_train_start", << >>)
    /\ UNCHANGED <<hparams, net, train_acc, test_acc, train_loss, test_loss, counters,
                   vizPair, steps, nextId>>

training_step ==
    /\ steps < MaxSteps
    /\ \E batch \in Batches, batch_idx \in BatchIdxs :
          LET r == model_step(net, loss_fns, batch)
              d == r[1]
          IN  /\ train_loss' = FeedLoss(train_loss, d)
              /\ logs' = LogLosses("train", d)
              /\ ret' = DictGet(d, "total_loss")
              /\ hook' = "training_step"
              /\ call' = <<batch, batch_idx>>
              /\ losses' = d
    /\ experiment' = << >>
    /\ vizCalls' = << >>
    /\ raised' = None
    /\ steps' = steps + 1
    /\ UNCHANGED <<hparams, net, train_acc, val_acc, test_acc, val_loss, test_loss,
                   val_acc_best, counters, vizPair, nextId>>

on_train_epoch_end ==
    /\ NoEffects("on_train_epoch_end", << >>)
    /\ UNCHANGED <<hparams, net, metrics, counters, vizPair, steps, nextId>>

validation_step ==
    /\ steps < MaxSteps
    /\ \E batch \in Batches, batch_idx \in BatchIdxs :
          LET r == model_step(net, loss_fns, batch)
              d == r[1]
              images == r[3]
              labels_encoded == r[4]
          IN  /\ val_loss' = FeedLoss(val_loss, d)
              /\ hook' = "validation_step"
              /\ call' = <<batch, batch_idx>>
              /\ losses' = d
              /\ IF ShouldVisualize(batch_idx)
                 THEN \E accuracy \in Accuracies, global_step \in GlobalSteps :
                      /\ vizCalls' = << [method |-> "visualize_prediction", net |-> net,
                                         images |-> images, labels |-> labels_encoded] >>
                      /\ experiment' =
                            << [method |-> "add_figure", tag |-> "Predicted_Images",
                                value |-> "fig", global_step |-> global_step],
                               [method |-> "add_scalar", tag |-> "Accuracy",
                                value |-> accuracy, global_step |-> global_step] >>
                      /\ logs' = LogLosses("val", d) \o
                            << LogEntry("val/Accuracy", accuracy, "False", "True", "True") >>
                 ELSE /\ vizCalls' = << >>
                      /\ experiment' = << >>
                      /\ logs' = LogLosses("val", d)
    /\ ret' = None
    /\ raised' = None
    /\ steps' = steps + 1
    /\ UNCHANGED <<hparams, net, train_acc, val_acc, test_acc, train_loss, test_loss,
                   val_acc_best, counters, vizPair, nextId>>

on_validation_epoch_end ==
    /\ NoEffects("on_validation_epoch_end", << >>)
    /\ UNCHANGED <<hparams, net, metrics, counters, vizPair, steps, nextId>>

test_step ==
    /\ steps < MaxSteps
    /\ \E batch \in Batches, batch_idx \in BatchIdxs, pair \in CountPairs :
          LET r == model_step(net, loss_fns, batch)
              d == r[1]
              images == r[3]
              labels_encoded == r[4]
              stored == StoreCounts(<<correct_count, total_count>>, pair)
          IN  /\ vizCalls' = << [method |-> "get_accuracy", net |-> net,
                                 images |-> images, labels |-> labels_encoded] >>
              /\ vizPair' = pair
              /\ correct_count' = stored[1]
              /\ total_count' = stored[2]
              /\ test_loss' = FeedLoss(test_loss, d)
              /\ logs' = LogLosses("test", d)
              /\ hook' = "test_step"
              /\ call' = <<batch, batch_idx>>
              /\ losses' = d
    /\ experiment' = << >>
    /\ ret' = None
    /\ raised' = None
    /\ steps' = steps + 1
    /\ UNCHANGED <<hparams, net, train_acc, val_acc, test_acc, train_loss, val_loss,
                   val_acc_best, nextId>>

\* as on_test_epoch_end, with the counters cleared for the next epoch
on_test_epoch_end_resetting ==
    /\ hook' = "on_test_epoch_end"
    /\ call' = << >>
    /\ losses' = << >>
    /\ experiment' = << >>
    /\ vizCalls' = << >>
    /\ ret' = None
    /\ IF total_count = 0
       THEN /\ raised' = "ZeroDivisionError"
            /\ logs' = << >>
       ELSE /\ raised' = None
            /\ logs' = << LogEntry("Test Dataset Accuracy",
                                   TestAccuracy(correct_count, total_count),
                                   None, None, "False") >>
    /\ correct_count' = 0
    /\ total_count' = 0
    /\ UNCHANGED <<hparams, net, metrics, vizPair, steps, nextId>>

\* as on_test_epoch_end, with the division guarded
on_test_epoch_end_guarded ==
    /\ hook' = "on_test_epoch_end"
    /\ call' = << >>
    /\ losses' = << >>
    /\ experiment' = << >>
    /\ vizCalls' = << >>
    /\ ret' = None
    /\ raised' = None
    /\ logs' = << LogEntry("Test Dataset Accuracy",
                           IF total_count = 0 THEN <<0, 1>>
                           ELSE TestAccuracy(correct_count, total_count),
                           None, None, "False") >>
    /\ UNCHANGED <<hparams, net, metrics, counters, vizPair, steps, nextId>>

on_test_epoch_end ==
    /\ hook' = "on_test_epoch_end"
    /\ call' = << >>
    /\ losses' = << >>
    /\ experiment' = << >>
    /\ vizCalls' = << >>
    /\ ret' = None
    /\ IF total_count = 0
       THEN /\ raised' = "ZeroDivisionError"
            /\ logs' = << >>
       ELSE /\ raised' = None
            /\ logs' = << LogEntry("Test Dataset Accuracy",
                                   TestAccuracy(correct_count, total_count),
                                   None, None, "False") >>
    /\ UNCHANGED <<hparams, net, metrics, counters, vizPair, steps, nextId>>

Stages == {"fit", "validate", "test", "predict"}

setup ==
    /\ \E stage \in Stages :
          /\ call' = <<stage>>
          /\ IF compile /\ stage = "fit"
             THEN /\ steps < MaxSteps
                  /\ net' = torch_compile(net)
                  /\ steps' = steps + 1
             ELSE UNCHANGED <<net, steps>>
    /\ hook' = "setup"
    /\ losses' = << >>
    /\ logs' = << >>
    /\ experiment' = << >>
    /\ vizCalls' = << >>
    /\ ret' = None
    /\ raised' = None
    /\ UNCHANGED <<hparams, metrics, counters, vizPair, nextId>>

\* self.hparams.optimizer(params=self.parameters())
NewOptimizer(id) == [kind |-> "optimizer", id |-> id, params |-> "self.parameters()"]

\* self.hparams.scheduler(optimizer=optimizer)
NewScheduler(id, optimizer) == [kind |-> "scheduler", id |-> id, optimizer |-> optimizer]

OptimizerConfigSecondOptimizer(sched, id) ==
    LET optimizer == NewOptimizer(id + 1)
    IN  IF sched # None
        THEN [optimizer |-> optimizer,
              lr_scheduler |-> [scheduler |-> NewScheduler(id + 2, NewOptimizer(id + 2)),
                                monitor |-> "val/total_loss",
                                interval |-> "epoch",
                                frequency |-> Frequency]]
        ELSE [optimizer |-> optimizer]

OptimizerConfig(sched, id) ==
    LET optimizer == NewOptimizer(id + 1)
    IN  IF sched # None
        THEN [optimizer |-> optimizer,
              lr_scheduler |-> [scheduler |-> NewScheduler(id + 2, optimizer),
                                monitor |-> "val/total_loss",
                                interval |-> "epoch",
                                frequency |-> Frequency]]
        ELSE [optimizer |-> optimizer]

configure_optimizers ==
    /\ steps < MaxSteps
    /\ steps' = steps + 1
    /\ ret' = OptimizerConfig(scheduler, nextId)
    /\ nextId' = nextId + (IF scheduler # None THEN 2 ELSE 1)
    /\ hook' = "configure_optimizers"
    /\ call' = << >>
    /\ losses' = << >>
    /\ logs' = << >>
    /\ experiment' = << >>
    /\ vizCalls' = << >>
    /\ raised' = None
    /\ UNCHANGED <<hparams, net, metrics, counters, vizPair>>

\* self.model_step(batch), called on its own
call_model_step ==
    /\ \E batch \in Batches :
          LET r == model_step(net, loss_fns, batch)
          IN  /\ ret' = r
              /\ losses' = r[1]
              /\ call' = <<batch>>
    /\ hook' = "model_step"
    /\ logs' = << >>
    /\ experiment' = << >>
    /\ vizCalls' = << >>
    /\ raised' = None
    /\ UNCHANGED <<hparams, net, metrics, counters, vizPair, steps, nextId>>

\* --------------------------------------------------------- construction
\* CaptchaModule.__init__
Constructed(fns, sched, comp) ==
    /\ loss_fns = fns
    /\ scheduler = sched
    /\ compile = comp
    /\ net = 0
    /\ train_acc = EmptyMetric
    /\ val_acc = EmptyMetric
    /\ test_acc = EmptyMetric
    /\ train_loss = EmptyMean
    /\ val_loss = EmptyMean
    /\ test_loss = EmptyMean
    /\ val_acc_best = EmptyMetric
    /\ correct_count = 0
    /\ total_count = 0
    /\ hook = "__init__"
    /\ call = << >>
    /\ losses = << >>
    /\ logs = << >>
    /\ experiment = << >>
    /\ vizCalls = << >>
    /\ vizPair = << >>
    /\ ret = None
    /\ raised = None
    /\ steps = 0
    /\ nextId = 0

\* every list of at most n loss functions
RECURSIVE LossFnLists(_)
LossFnLists(n) ==
    IF n = 0
    THEN {<< >>}
    ELSE LET shorter == LossFnLists(n - 1)
         IN  shorter \cup {Append(l, fn) : l \in shorter, fn \in LossFnSet}

Fn(tag, weight, base) == [tag |-> tag, weight |-> weight, base |-> base]

\* the constructor arguments (loss_fns, scheduler, compile) the lifecycle is
\* explored with
Configurations ==
    { << << >>, None, FALSE >>,
      << << Fn("ce", 2, 1) >>, "scheduler", FALSE >>,
      << << Fn("ce", 1, 1), Fn("Accuracy", 2, 2) >>, None, TRUE >>,
      << << Fn("ce", 2, 1), Fn("ce", 1, 2) >>, "scheduler", TRUE >>,
      << << Fn("ce", 1, 2), Fn("total_loss", 2, 1) >>, None, FALSE >> }

Init == \E c \in Configurations : Constructed(c[1], c[2], c[3])

Next ==
    \/ on_train_start
    \/ training_step
    \/ on_train_epoch_end
    \/ validation_step
    \/ on_validation_epoch_end
    \/ test_step
    \/ on_test_epoch_end
    \/ setup
    \/ configure_optimizers

Spec == Init /\ [][Next]_vars

\* model_step alone, over every list of up to MaxLossFns loss functions
InitLoss == \E fns \in LossFnLists(MaxLossFns) : Constructed(fns, None, FALSE)

NextLoss == call_model_step

SpecLoss == InitLoss /\ [][NextLoss]_vars

\* ================================================================ claims
\* what the claims compare the code with, computed independently of it

\* loss_fn(prediction, images, labels_encoded) of the i-th configured function
\* for the batch of the last call
RawOf(i) == LossCall(loss_fns[i], forward(net, call[1][1]), call[1][1], call[1][2])

\* sum of raw * weight over the configured functions from index i on
RECURSIVE WeightedSumFrom(_)
WeightedSumFrom(i) ==
    IF i > Len(loss_fns) THEN 0 ELSE RawOf(i) * loss_fns[i].weight + WeightedSumFrom(i + 1)

TagsOf(fns) == {fns[i].tag : i \in DOMAIN fns}

\* the last configured function carrying tag t
LastWithTag(t) ==
    CHOOSE i \in DOMAIN loss_fns :
        /\ loss_fns[i].tag = t
        /\ \A j \in DOMAIN loss_fns : loss_fns[j].tag = t => j <= i

StepHooks == {"training_step", "validation_step", "test_step"}

StageOf(h) ==
    CASE h = "training_step" -> "train"
      [] h = "validation_step" -> "val"
      [] h = "test_step" -> "test"

\* ---------------------------------------------------------------------
\* C1: for every batch and every list of loss functions (any tags, any
\* weights, any length including zero) the total_loss entry of the record
\* returned by model_step is the sum of loss_fn(...) * loss_fn.weight over
\* the list; 0 for the empty list.
C1_TotalIsWeightedSum ==
    hook = "model_step" => DictGet(ret[1], "total_loss") = WeightedSumFrom(1)

C2_LogsLastBatchAccuracy ==
    (hook = "on_test_epoch_end" /\ vizPair # << >>) =>
        \E i \in DOMAIN logs :
            /\ logs[i].name = "Test Dataset Accuracy"
            /\ logs[i].value[1] * vizPair[2] = Percent * vizPair[1] * logs[i].value[2]

\* C2 amended: ... whose most recent visualizer pair has a nonzero
\* total_count, on_test_epoch_end logs exactly one value, under
\* Test Dataset Accuracy, equal to 100 * correct_count / total_count of that
\* pair alone.
C2_LogsLastBatchAccuracyWhenNonzero ==
    (hook = "on_test_epoch_end" /\ vizPair # << >> /\ vizPair[2] # 0) =>
        /\ Len(logs) = 1
        /\ logs[1].name = "Test Dataset Accuracy"
        /\ logs[1].value[2] # 0
        /\ logs[1].value[1] * vizPair[2] = Percent * vizPair[1] * logs[1].value[2]

\* the test epoch ended after two test steps, the last answering 3 of 4
C2_Witness ==
    /\ hook = "on_test_epoch_end"
    /\ test_loss.weight >= 2
    /\ vizPair = <<3, 4>>
    /\ Len(logs) = 1

\* ---------------------------------------------------------------------
\* C3: configure_optimizers returns a mapping whose only key is optimizer
\* when the scheduler factory is None; otherwise exactly optimizer and
\* lr_scheduler, the latter holding the scheduler built from that same
\* optimizer instance, monitor val/total_loss, interval epoch, frequency 1.
C3_OptimizerConfig ==
    hook = "configure_optimizers" =>
        IF scheduler = None
        THEN /\ DOMAIN ret = {"optimizer"}
             /\ ret.optimizer.kind = "optimizer"
        ELSE /\ DOMAIN ret = {"optimizer", "lr_scheduler"}
             /\ ret.optimizer.kind = "optimizer"
             /\ DOMAIN ret.lr_scheduler = {"scheduler", "monitor", "interval", "frequency"}
             /\ ret.lr_scheduler.scheduler.kind = "scheduler"
             /\ ret.lr_scheduler.scheduler.optimizer = ret.optimizer
             /\ ret.lr_scheduler.monitor = "val/total_loss"
             /\ ret.lr_scheduler.interval = "epoch"
             /\ ret.lr_scheduler.frequency = 1

C3_Witness ==
    /\ hook = "configure_optimizers"
    /\ scheduler # None
    /\ "lr_scheduler" \in DOMAIN ret

\* ---------------------------------------------------------------------
\* C4: visualize_prediction and its logging (figure Predicted_Images,
\* scalar Accuracy, metric val/Accuracy) happen in a validation_step exactly
\* when batch_idx % 100 == 0, and never in a training_step or test_step.
VisualizationDone ==
    /\ Len(vizCalls) = 1
    /\ vizCalls[1].method = "visualize_prediction"
    /\ Len(experiment) = 2
    /\ experiment[1].method = "add_figure"
    /\ experiment[1].tag = "Predicted_Images"
    /\ experiment[2].method = "add_scalar"
    /\ experiment[2].tag = "Accuracy"
    /\ Len(logs) = Len(losses) + 1
    /\ logs[Len(logs)].name = "val/Accuracy"
    /\ logs[Len(logs)].value = experiment[2].value

NoVisualization ==
    /\ \A i \in DOMAIN vizCalls : vizCalls[i].method # "visualize_prediction"
    /\ experiment = << >>
    /\ Len(logs) = Len(losses)

C4_VisualizationCadence ==
    /\ hook = "validation_step" =>
          IF call[2] % 100 = 0 THEN VisualizationDone ELSE NoVisualization
    /\ hook \in {"training_step", "test_step"} => NoVisualization

C4_Witness ==
    /\ hook = "validation_step"
    /\ call[2] = 0
    /\ VisualizationDone

\* ---------------------------------------------------------------------
\* C5: every step handler logs each entry of the loss record exactly once,
\* as <stage>/<loss_name> with its own stage, on_step false and on_epoch
\* true; and every logged name, whatever the hook, is train/<loss_name>,
\* val/<loss_name>, test/<loss_name>, val/Accuracy or Test Dataset Accuracy.
C5_LossesLoggedPerStage ==
    /\ hook \in StepHooks =>
          /\ Len(logs) >= Len(losses)
          /\ \A i, j \in DOMAIN losses : losses[i][1] = losses[j][1] => i = j
          /\ \A i \in DOMAIN losses :
                /\ logs[i].name = StageOf(hook) \o "/" \o losses[i][1]
                /\ logs[i].value = losses[i][2]
                /\ logs[i].on_step = "False"
                /\ logs[i].on_epoch = "True"
          /\ \A i \in DOMAIN logs : i > Len(losses) => logs[i].name = "val/Accuracy"
    /\ \A i \in DOMAIN logs :
          logs[i].name \in
              {stage \o "/" \o k : stage \in {"train", "val", "test"}, k \in DictKeys(losses)}
                  \cup {"val/Accuracy", "Test Dataset Accuracy"}

\* a validation step has logged a two-function record and the accuracy
C5_Witness ==
    /\ hook = "validation_step"
    /\ Len(losses) = 3
    /\ Len(logs) = 4

\* ---------------------------------------------------------------------
\* C7: each step handler feeds the record's total_loss exactly once to the
\* accumulator of its own stage and leaves the other two unchanged;
\* training_step also returns that value.
Fed(before, after, d) ==
    /\ after.weight = before.weight + 1
    /\ after.mean_value = before.mean_value + DictGet(d, "total_loss")

C7_OwnAccumulatorFedOnce ==
    [][ /\ (hook' = "training_step" /\ steps' # steps) =>
              /\ Fed(train_loss, train_loss', losses')
              /\ UNCHANGED <<val_loss, test_loss>>
              /\ ret' = DictGet(losses', "total_loss")
        /\ (hook' = "validation_step" /\ steps' # steps) =>
              /\ Fed(val_loss, val_loss', losses')
              /\ UNCHANGED <<train_loss, test_loss>>
        /\ (hook' = "test_step" /\ steps' # steps) =>
              /\ Fed(test_loss, test_loss', losses')
              /\ UNCHANGED <<train_loss, val_loss>>
      ]_vars

\* a training step after a validation step that fed a nonzero loss
C7_Witness ==
    /\ hook = "training_step"
    /\ train_loss.weight = 1
    /\ val_loss.weight = 1
    /\ val_loss.mean_value > 0
    /\ ret > 0

\* ---------------------------------------------------------------------
\* C8: correct_count and total_count are 0 after construction and change
\* only in test_step: no other hook modifies them, the test epoch's end
\* included.
C8_CountersChangeOnlyInTestStep ==
    /\ (correct_count = 0 /\ total_count = 0)
    /\ [][ counters' # counters => hook' = "test_step" ]_vars

\* a test epoch has ended and the counters still hold the last batch's pair
C8_Witness ==
    /\ hook = "on_test_epoch_end"
    /\ correct_count = 3
    /\ total_count = 4

\* ---------------------------------------------------------------------
\* C9: on_train_start empties val_loss, val_acc and val_acc_best whatever
\* validation steps ran before, and leaves train_loss, test_loss, the
\* train/test accuracy accumulators and the counters unchanged.
C9_TrainStartResetsValidationMetrics ==
    [][ hook' = "on_train_start" =>
            /\ val_loss'.weight = 0
            /\ val_loss'.mean_value = 0
            /\ val_acc' = "empty"
            /\ val_acc_best' = "empty"
            /\ UNCHANGED <<train_loss, test_loss, train_acc, test_acc, counters>>
      ]_vars

\* training started after validation steps only: their losses are gone
C9_Witness ==
    /\ hook = "on_train_start"
    /\ steps = MaxSteps
    /\ net = 0
    /\ nextId = 0
    /\ train_loss.weight = 0
    /\ test_loss.weight = 0
    /\ val_loss.weight = 0

\* ---------------------------------------------------------------------
\* C10: on_test_epoch_end with total_count 0 fails with a division by
\* zero, logs nothing and leaves the counters unchanged; it logs a value
\* only when total_count is nonzero.
C10_ZeroTotalRaises ==
    [][ hook' = "on_test_epoch_end" =>
            /\ UNCHANGED counters
            /\ IF total_count = 0
               THEN /\ raised' = "ZeroDivisionError"
                    /\ logs' = << >>
               ELSE /\ raised' = None
                    /\ Len(logs') = 1
                    /\ logs'[1].name = "Test Dataset Accuracy"
      ]_vars

\* the last test step's visualizer answered a total of 0
C10_Witness ==
    /\ hook = "on_test_epoch_end"
    /\ vizPair = <<0, 0>>
    /\ raised = "ZeroDivisionError"
    /\ logs = << >>

====
